---- MODULE Spec2Model ----
(***************************************************************************)
(* Model of sylar::Thread (src/thread/thread.cpp): a handle owning one      *)
(* pthread, the start-up handshake between the constructor and the entry    *)
(* function Thread::run, join, the detaching destructor and the             *)
(* thread-local identity (t_thread, t_thread_name) with GetName/SetName.    *)
(*                                                                         *)
(* One owner thread (Main, the process's initial thread) constructs, joins  *)
(* and destroys the handles; every successfully created handle h has one    *)
(* spawned thread, also called h.  Handle objects live at storage           *)
(* addresses; a destroyed handle's address can be taken by a later handle,  *)
(* which is what a dangling t_thread then points at.                        *)
(***************************************************************************)
EXTENDS Integers, Sequences, FiniteSets, TLC

(* ---------------------------- bounds ----------------------------------- *)
NumHandles  == 2      \* handles constructed over one execution

Main     == 0
Handles  == 1..NumHandles
Threads  == {Main} \cup Handles
Null     == 0
Addrs    == Handles    \* one storage address per handle is the most ever needed

CtorNames   == {"a-thread-name-of-23-chr"}
RenameNames == {"renamed-a"}
Torn        == "<torn>"
Names       == CtorNames \cup RenameNames \cup {"UNKNOWN", Torn, ""}

VARIABLES
  life,          \* handle -> "unborn" | "constructing" | "live" | "failed" | "destroyed"
  addr,          \* handle -> storage address of the object (Null while unborn)
  m_thread,      \* address -> pthread_t held by the object there (0: none attached)
  m_id,          \* address -> numeric id field
  m_name,        \* address -> name field
  m_cb,          \* address -> stored work (0: empty std::function)
  m_semaphore,   \* address -> count of the readiness semaphore
  pc,            \* thread -> program location
  t_thread,      \* thread -> thread_local Thread* (an address, or Null)
  t_thread_name, \* thread -> thread_local std::string
  os_name,       \* spawned thread -> name given to pthread_setname_np
  cb,            \* spawned thread -> the local std::function of Thread::run
  arg,           \* thread -> the argument of the SetName call in progress
  mainH,         \* the handle the owner's current call works on (0: none)
  ret,           \* outcome of the owner's call that has just returned:
                 \* "ok", or the message of the std::logic_error it threw
  joined,        \* spawned thread -> number of successful pthread_join on it
  detached,      \* spawned thread -> number of pthread_detach on it
  invoked        \* work -> sequence of the threads that invoked it

vars == << life, addr, m_thread, m_id, m_name, m_cb, m_semaphore, pc, t_thread,
           t_thread_name, os_name, cb, arg, mainH, ret, joined, detached,
           invoked >>

objVars  == << m_thread, m_id, m_name, m_cb, m_semaphore >>
platVars == << joined, detached >>

(* ---------------------------- platform --------------------------------- *)
\* syscall(SYS_gettid): a non-zero id, distinct per thread.
GetThreadId(t) == t + 1

\* The pthread_t pthread_create stores for the thread of handle h (non-zero).
PthreadOf(h) == h

\* Default member initialisers of the id field and of the pthread field.
UnsetId     == 0
NoThread    == 0

\* Semaphore: signal adds one, wait needs a positive count and takes one.
SemSignal(c)  == c + 1
SemCanWait(c) == c > 0
SemWait(c)    == c - 1

\* The storage at address a holds an object whose lifetime has begun and not ended.
Occupied(a) == \E h \in Handles : life[h] \in {"constructing", "live"} /\ addr[h] = a

(* ---------------------------- accessors -------------------------------- *)
GetThis(t) == t_thread[t]
GetName(t) == t_thread_name[t]

\* Threads whose assignment to the name field at address a is in progress.
Writers(a) == { t \in Threads : pc[t] = "SetName48" /\ t_thread[t] = a }

\* The values a read of the name field at address a can produce: the stored
\* value, or, while an unsynchronised assignment is in progress, anything
\* that assignment may expose.
ReadName(a) ==
  IF Writers(a) = {} THEN {m_name[a]}
  ELSE {m_name[a], Torn} \cup { arg[t] : t \in Writers(a) }

\* std::string::substr(0, n)
Substr0(s, n) == IF Len(s) <= n THEN s ELSE SubSeq(s, 1, n)

OsNameLimit == 15

(* ---------------------------- initial state ---------------------------- *)
Init ==
  /\ life = [h \in Handles |-> "unborn"]
  /\ addr = [h \in Handles |-> Null]
  /\ m_thread = [a \in Addrs |-> NoThread]
  /\ m_id = [a \in Addrs |-> UnsetId]
  /\ m_name = [a \in Addrs |-> ""]
  /\ m_cb = [a \in Addrs |-> 0]
  /\ m_semaphore = [a \in Addrs |-> 0]
  /\ pc = [t \in Threads |-> IF t = Main THEN "idle" ELSE "unborn"]
  /\ t_thread = [t \in Threads |-> Null]
  /\ t_thread_name = [t \in Threads |-> "UNKNOWN"]
  /\ os_name = [t \in Handles |-> ""]
  /\ cb = [t \in Handles |-> 0]
  /\ arg = [t \in Threads |-> ""]
  /\ mainH = 0
  /\ ret = "none"
  /\ joined = [t \in Handles |-> 0]
  /\ detached = [t \in Handles |-> 0]
  /\ invoked = [w \in Handles |-> << >>]

(* ---------------------------- storage ---------------------------------- *)
\* Addresses some object has been placed at so far.
UsedAddrs == { addr[h] : h \in { g \in Handles : addr[g] # Null } }

\* Where a new object can be placed: any free address that held an object
\* before, or the first address never used (addresses are interchangeable).
FreeAddrs ==
  { a \in Addrs : /\ ~Occupied(a)
                  /\ \/ a \in UsedAddrs
                     \/ \A b \in Addrs : b < a => b \in UsedAddrs }

(* ---------------------------- Thread::Thread --------------------------- *)
\* Lines 53-57 when pthread_create returns 0: the member initialisers
\* m_cb(cb), m_name(name), the default-initialised id and semaphore, and the
\* pthread field filled in by pthread_create; the new thread will enter run
\* and the constructor goes on to wait.
CtorSpawn(h, name, a) ==
  /\ pc[Main] = "idle"
  /\ life[h] = "unborn"
  /\ \A g \in Handles : g < h => life[g] # "unborn"
  /\ a \in FreeAddrs
  /\ life' = [life EXCEPT ![h] = "constructing"]
  /\ addr' = [addr EXCEPT ![h] = a]
  /\ m_cb' = [m_cb EXCEPT ![a] = h]
  /\ m_name' = [m_name EXCEPT ![a] = name]
  /\ m_id' = [m_id EXCEPT ![a] = UnsetId]
  /\ m_semaphore' = [m_semaphore EXCEPT ![a] = 0]
  /\ m_thread' = [m_thread EXCEPT ![a] = PthreadOf(h)]
  /\ pc' = [pc EXCEPT ![Main] = "ctor64", ![h] = "run95"]
  /\ mainH' = h
  /\ ret' = "none"
  /\ UNCHANGED << t_thread, t_thread_name, os_name, cb, arg, platVars,
                  invoked >>

\* The constructor ignoring the error code of pthread_create and going on to
\* wait for a thread that does not exist.
CtorSpawnFailIgnored(h, name, a) ==
  /\ pc[Main] = "idle"
  /\ life[h] = "unborn"
  /\ \A g \in Handles : g < h => life[g] # "unborn"
  /\ a \in FreeAddrs
  /\ life' = [life EXCEPT ![h] = "constructing"]
  /\ addr' = [addr EXCEPT ![h] = a]
  /\ m_cb' = [m_cb EXCEPT ![a] = h]
  /\ m_name' = [m_name EXCEPT ![a] = name]
  /\ m_id' = [m_id EXCEPT ![a] = UnsetId]
  /\ m_semaphore' = [m_semaphore EXCEPT ![a] = 0]
  /\ pc' = [pc EXCEPT ![Main] = "ctor64"]
  /\ mainH' = h
  /\ ret' = "none"
  /\ UNCHANGED << m_thread, t_thread, t_thread_name, os_name, cb, arg,
                  platVars, invoked >>

\* Lines 53-62 when pthread_create returns an error: the constructor throws,
\* the members already built are destroyed and no object comes to exist.
CtorSpawnFail(h, name, a) ==
  /\ pc[Main] = "idle"
  /\ life[h] = "unborn"
  /\ \A g \in Handles : g < h => life[g] # "unborn"
  /\ a \in FreeAddrs
  /\ life' = [life EXCEPT ![h] = "failed"]
  /\ ret' = "pthread_create error"
  /\ UNCHANGED << addr, objVars, pc, t_thread, t_thread_name, os_name, cb, arg,
                  mainH, platVars, invoked >>

\* The constructor returning without waiting for the readiness signal.
Ctor64NoWait(h) ==
  /\ pc[Main] = "ctor64" /\ mainH = h
  /\ life' = [life EXCEPT ![h] = "live"]
  /\ pc' = [pc EXCEPT ![Main] = "idle"]
  /\ mainH' = 0
  /\ ret' = "ok"
  /\ UNCHANGED << addr, objVars, t_thread, t_thread_name, os_name, cb, arg,
                  platVars, invoked >>

\* Line 64, m_semaphore.wait(): returns once the count is positive.
Ctor64(h) ==
  /\ pc[Main] = "ctor64" /\ mainH = h
  /\ SemCanWait(m_semaphore[addr[h]])
  /\ m_semaphore' = [m_semaphore EXCEPT ![addr[h]] = SemWait(@)]
  /\ life' = [life EXCEPT ![h] = "live"]
  /\ pc' = [pc EXCEPT ![Main] = "idle"]
  /\ mainH' = 0
  /\ ret' = "ok"
  /\ UNCHANGED << addr, m_thread, m_id, m_name, m_cb, t_thread, t_thread_name,
                  os_name, cb, arg, platVars, invoked >>

(* ---------------------------- Thread::run ------------------------------ *)
\* t_thread declared static without thread_local: one pointer for all threads.
Run95SharedPointer(t) ==
  /\ pc[t] = "run95"
  /\ t_thread' = [u \in Threads |-> addr[t]]
  /\ pc' = [pc EXCEPT ![t] = "run96"]
  /\ UNCHANGED << life, addr, objVars, t_thread_name, os_name, cb, arg, mainH,
                  ret, platVars, invoked >>

\* The signal given first, before any of the set-up, and again at line 106.
Run95SignalsFirst(t) ==
  /\ pc[t] = "run95"
  /\ t_thread' = [t_thread EXCEPT ![t] = addr[t]]
  /\ m_semaphore' = [m_semaphore EXCEPT ![addr[t]] = SemSignal(@)]
  /\ pc' = [pc EXCEPT ![t] = "run96"]
  /\ UNCHANGED << life, addr, m_thread, m_id, m_name, m_cb, t_thread_name,
                  os_name, cb, arg, mainH, ret, platVars, invoked >>

\* Line 95: t_thread = thread
Run95(t) ==
  /\ pc[t] = "run95"
  /\ t_thread' = [t_thread EXCEPT ![t] = addr[t]]
  /\ pc' = [pc EXCEPT ![t] = "run96"]
  /\ UNCHANGED << life, addr, objVars, t_thread_name, os_name, cb, arg, mainH,
                  ret, platVars, invoked >>

\* Line 96: t_thread_name = thread->m_name
Run96(t) ==
  /\ pc[t] = "run96"
  /\ \E n \in ReadName(addr[t]) :
        t_thread_name' = [t_thread_name EXCEPT ![t] = n]
  /\ pc' = [pc EXCEPT ![t] = "run97"]
  /\ UNCHANGED << life, addr, objVars, t_thread, os_name, cb, arg, mainH,
                  ret, platVars, invoked >>

\* The id taken by the creating thread (as if read in the constructor).
Run97CreatorId(t) ==
  /\ pc[t] = "run97"
  /\ m_id' = [m_id EXCEPT ![addr[t]] = GetThreadId(Main)]
  /\ pc' = [pc EXCEPT ![t] = "run99"]
  /\ UNCHANGED << life, addr, m_thread, m_name, m_cb, m_semaphore, t_thread,
                  t_thread_name, os_name, cb, arg, mainH, ret, platVars,
                  invoked >>

\* Line 97: thread->m_id = GetThreadId()
Run97(t) ==
  /\ pc[t] = "run97"
  /\ m_id' = [m_id EXCEPT ![addr[t]] = GetThreadId(t)]
  /\ pc' = [pc EXCEPT ![t] = "run99"]
  /\ UNCHANGED << life, addr, m_thread, m_name, m_cb, m_semaphore, t_thread,
                  t_thread_name, os_name, cb, arg, mainH, ret, platVars,
                  invoked >>

\* Line 99: pthread_setname_np(pthread_self(), thread->m_name.substr(0, 15))
Run99(t) ==
  /\ pc[t] = "run99"
  /\ \E n \in ReadName(addr[t]) :
        os_name' = [os_name EXCEPT ![t] = Substr0(n, OsNameLimit)]
  /\ pc' = [pc EXCEPT ![t] = "run103"]
  /\ UNCHANGED << life, addr, objVars, t_thread, t_thread_name, cb, arg,
                  mainH, ret, platVars, invoked >>

\* The work copied into the local instead of swapped: the handle keeps it.
Run103Copy(t) ==
  /\ pc[t] = "run103"
  /\ cb' = [cb EXCEPT ![t] = m_cb[addr[t]]]
  /\ pc' = [pc EXCEPT ![t] = "run106"]
  /\ UNCHANGED << life, addr, objVars, t_thread, t_thread_name, os_name, arg,
                  mainH, ret, platVars, invoked >>

\* Lines 102-103: std::function<void()> cb; cb.swap(thread->m_cb)
Run103(t) ==
  /\ pc[t] = "run103"
  /\ cb' = [cb EXCEPT ![t] = m_cb[addr[t]]]
  /\ m_cb' = [m_cb EXCEPT ![addr[t]] = cb[t]]
  /\ pc' = [pc EXCEPT ![t] = "run106"]
  /\ UNCHANGED << life, addr, m_thread, m_id, m_name, m_semaphore, t_thread,
                  t_thread_name, os_name, arg, mainH, ret, platVars, invoked >>

\* The entry function going on to the work without signalling.
Run106NoSignal(t) ==
  /\ pc[t] = "run106"
  /\ pc' = [pc EXCEPT ![t] = "run108"]
  /\ UNCHANGED << life, addr, objVars, t_thread, t_thread_name, os_name, cb,
                  arg, mainH, ret, platVars, invoked >>

\* Line 106: thread->m_semaphore.signal()
Run106(t) ==
  /\ pc[t] = "run106"
  /\ m_semaphore' = [m_semaphore EXCEPT ![addr[t]] = SemSignal(@)]
  /\ pc' = [pc EXCEPT ![t] = "run108"]
  /\ UNCHANGED << life, addr, m_thread, m_id, m_name, m_cb, t_thread,
                  t_thread_name, os_name, cb, arg, mainH, ret, platVars,
                  invoked >>

\* The entry function calling the work a second time.
Run108Twice(t) ==
  /\ pc[t] = "run108"
  /\ invoked' = IF cb[t] = 0 THEN invoked
                ELSE [invoked EXCEPT ![cb[t]] = Append(Append(@, t), t)]
  /\ pc' = [pc EXCEPT ![t] = IF cb[t] = 0 THEN "aborted" ELSE "work"]
  /\ UNCHANGED << life, addr, objVars, t_thread, t_thread_name, os_name, cb,
                  arg, mainH, ret, platVars >>

\* Line 108: cb() enters the work held by the local; an empty std::function
\* throws std::bad_function_call, which nothing catches.
Run108(t) ==
  /\ pc[t] = "run108"
  /\ invoked' = IF cb[t] = 0 THEN invoked
                ELSE [invoked EXCEPT ![cb[t]] = Append(@, t)]
  /\ pc' = [pc EXCEPT ![t] = IF cb[t] = 0 THEN "aborted" ELSE "work"]
  /\ UNCHANGED << life, addr, objVars, t_thread, t_thread_name, os_name, cb,
                  arg, mainH, ret, platVars >>

\* The entry function resetting the id in the handle when the work returns.
Run109ResetsId(t) ==
  /\ pc[t] = "work"
  /\ m_id' = [m_id EXCEPT ![addr[t]] = UnsetId]
  /\ pc' = [pc EXCEPT ![t] = "done"]
  /\ UNCHANGED << life, addr, m_thread, m_name, m_cb, m_semaphore, t_thread,
                  t_thread_name, os_name, cb, arg, mainH, ret, platVars,
                  invoked >>

\* The work returns; line 109 returns and the platform thread terminates.
Run109(t) ==
  /\ pc[t] = "work"
  /\ pc' = [pc EXCEPT ![t] = "done"]
  /\ UNCHANGED << life, addr, objVars, t_thread, t_thread_name, os_name, cb,
                  arg, mainH, ret, platVars, invoked >>

(* ---------------------------- Thread::SetName -------------------------- *)
\* A call of Thread::SetName(n), by the owner between its other calls or by
\* a spawned thread from inside its work.  Line 46, if (t_thread), reads the
\* caller's own thread-local; when it is non-null the assignment of line 48
\* begins.
SetName46(t, n) ==
  /\ pc[t] = IF t = Main THEN "idle" ELSE "work"
  /\ arg' = [arg EXCEPT ![t] = n]
  /\ pc' = [pc EXCEPT ![t] = IF t_thread[t] # Null THEN "SetName48" ELSE "SetName50"]
  /\ ret' = IF t = Main THEN "none" ELSE ret
  /\ UNCHANGED << life, addr, objVars, t_thread, t_thread_name, os_name, cb,
                  mainH, platVars, invoked >>

\* Line 48: t_thread->m_name = name completes.  t_thread is a raw pointer
\* that outlives the object, so the store goes to whatever is at that address
\* now: the caller's own handle, a later handle placed in the same storage,
\* or freed storage, where it has no effect that can be observed (a fault of
\* the process there ends the execution and adds no state).  With another
\* assignment to the same field in progress the stored value may be torn.
SetName48(t) ==
  /\ pc[t] = "SetName48"
  /\ LET a == t_thread[t] IN
       IF Occupied(a)
       THEN \E v \in (IF Writers(a) = {t} THEN {arg[t]} ELSE {arg[t], Torn}) :
               m_name' = [m_name EXCEPT ![a] = v]
       ELSE m_name' = m_name
  /\ pc' = [pc EXCEPT ![t] = "SetName50"]
  /\ UNCHANGED << life, addr, m_thread, m_id, m_cb, m_semaphore, t_thread,
                  t_thread_name, os_name, cb, arg, mainH, ret, platVars,
                  invoked >>

\* Line 50: t_thread_name = name; the call returns.
SetName50(t) ==
  /\ pc[t] = "SetName50"
  /\ t_thread_name' = [t_thread_name EXCEPT ![t] = arg[t]]
  /\ arg' = [arg EXCEPT ![t] = ""]
  /\ pc' = [pc EXCEPT ![t] = IF t = Main THEN "idle" ELSE "work"]
  /\ UNCHANGED << life, addr, objVars, t_thread, os_name, cb, mainH, ret,
                  platVars, invoked >>

(* ---------------------------- Thread::join ----------------------------- *)
\* Line 79, if (m_thread): with a thread attached the call goes on to
\* pthread_join.
Join79(h) ==
  /\ pc[Main] = "idle"
  /\ life[h] = "live"
  /\ m_thread[addr[h]] # 0
  /\ pc' = [pc EXCEPT ![Main] = "join81"]
  /\ mainH' = h
  /\ ret' = "none"
  /\ UNCHANGED << life, addr, objVars, t_thread, t_thread_name, os_name, cb,
                  arg, platVars, invoked >>

\* Line 79 with nothing attached: the call returns at once.
Join79Detached(h) ==
  /\ pc[Main] = "idle"
  /\ life[h] = "live"
  /\ m_thread[addr[h]] = 0
  /\ ret' = "ok"
  /\ UNCHANGED << life, addr, objVars, pc, t_thread, t_thread_name, os_name,
                  cb, arg, mainH, platVars, invoked >>

\* A successful join that leaves m_thread set (line 87 missing).
Join81OkKeepsThread(h) ==
  /\ pc[Main] = "join81" /\ mainH = h
  /\ pc[m_thread[addr[h]]] \in {"done", "aborted"}
  /\ joined' = [joined EXCEPT ![m_thread[addr[h]]] = @ + 1]
  /\ pc' = [pc EXCEPT ![Main] = "idle"]
  /\ mainH' = 0
  /\ ret' = "ok"
  /\ UNCHANGED << life, addr, objVars, t_thread, t_thread_name, os_name, cb,
                  arg, detached, invoked >>

\* A join that returns success without waiting for the thread to terminate.
Join81OkNoWait(h) ==
  /\ pc[Main] = "join81" /\ mainH = h
  /\ joined' = [joined EXCEPT ![m_thread[addr[h]]] = @ + 1]
  /\ m_thread' = [m_thread EXCEPT ![addr[h]] = 0]
  /\ pc' = [pc EXCEPT ![Main] = "idle"]
  /\ mainH' = 0
  /\ ret' = "ok"
  /\ UNCHANGED << life, addr, m_id, m_name, m_cb, m_semaphore, t_thread,
                  t_thread_name, os_name, cb, arg, detached, invoked >>

\* Lines 81-87, pthread_join returns 0: it does so once the target thread
\* has terminated, and the thread's resources are then released; m_thread = 0
\* and the call returns.
Join81Ok(h) ==
  /\ pc[Main] = "join81" /\ mainH = h
  /\ pc[m_thread[addr[h]]] \in {"done", "aborted"}
  /\ joined' = [joined EXCEPT ![m_thread[addr[h]]] = @ + 1]
  /\ m_thread' = [m_thread EXCEPT ![addr[h]] = 0]
  /\ pc' = [pc EXCEPT ![Main] = "idle"]
  /\ mainH' = 0
  /\ ret' = "ok"
  /\ UNCHANGED << life, addr, m_id, m_name, m_cb, m_semaphore, t_thread,
                  t_thread_name, os_name, cb, arg, detached, invoked >>

\* Line 81, pthread_join returns an error code: the thread is left as it was.
Join81Fail(h) ==
  /\ pc[Main] = "join81" /\ mainH = h
  /\ pc' = [pc EXCEPT ![Main] = "join84"]
  /\ UNCHANGED << life, addr, objVars, t_thread, t_thread_name, os_name, cb,
                  arg, mainH, ret, platVars, invoked >>

\* The error path clearing m_thread before it throws.
Join84ClearsThread(h) ==
  /\ pc[Main] = "join84" /\ mainH = h
  /\ m_thread' = [m_thread EXCEPT ![addr[h]] = 0]
  /\ pc' = [pc EXCEPT ![Main] = "idle"]
  /\ mainH' = 0
  /\ ret' = "pthread_join error"
  /\ UNCHANGED << life, addr, m_id, m_name, m_cb, m_semaphore, t_thread,
                  t_thread_name, os_name, cb, arg, platVars, invoked >>

\* Lines 84-85: the message reads m_name, then the logic_error is thrown.
Join84(h) ==
  /\ pc[Main] = "join84" /\ mainH = h
  /\ pc' = [pc EXCEPT ![Main] = "idle"]
  /\ mainH' = 0
  /\ ret' = "pthread_join error"
  /\ UNCHANGED << life, addr, objVars, t_thread, t_thread_name, os_name, cb,
                  arg, platVars, invoked >>

(* ---------------------------- Thread::~Thread -------------------------- *)
\* A destructor that joins the attached thread instead of detaching it.
DestroyJoins(h) ==
  /\ pc[Main] = "idle"
  /\ life[h] = "live"
  /\ IF m_thread[addr[h]] # 0
     THEN /\ pc[m_thread[addr[h]]] \in {"done", "aborted"}
          /\ joined' = [joined EXCEPT ![m_thread[addr[h]]] = @ + 1]
          /\ m_thread' = [m_thread EXCEPT ![addr[h]] = 0]
     ELSE UNCHANGED << joined, m_thread >>
  /\ life' = [life EXCEPT ![h] = "destroyed"]
  /\ m_cb' = [m_cb EXCEPT ![addr[h]] = 0]
  /\ m_name' = [m_name EXCEPT ![addr[h]] = ""]
  /\ m_semaphore' = [m_semaphore EXCEPT ![addr[h]] = 0]
  /\ ret' = "none"
  /\ UNCHANGED << addr, m_id, pc, t_thread, t_thread_name, os_name, cb, arg,
                  mainH, detached, invoked >>

\* A destructor that detaches without looking at m_thread (line 69 missing).
DestroyAlwaysDetaches(h) ==
  /\ pc[Main] = "idle"
  /\ life[h] = "live"
  /\ detached' = [detached EXCEPT ![h] = @ + 1]
  /\ m_thread' = [m_thread EXCEPT ![addr[h]] = 0]
  /\ life' = [life EXCEPT ![h] = "destroyed"]
  /\ m_cb' = [m_cb EXCEPT ![addr[h]] = 0]
  /\ m_name' = [m_name EXCEPT ![addr[h]] = ""]
  /\ m_semaphore' = [m_semaphore EXCEPT ![addr[h]] = 0]
  /\ ret' = "none"
  /\ UNCHANGED << addr, m_id, pc, t_thread, t_thread_name, os_name, cb, arg,
                  mainH, joined, invoked >>

\* Lines 69-74, then the members are destroyed and the storage is free.
Destroy(h) ==
  /\ pc[Main] = "idle"
  /\ life[h] = "live"
  /\ IF m_thread[addr[h]] # 0
     THEN /\ detached' = [detached EXCEPT ![m_thread[addr[h]]] = @ + 1]
          /\ m_thread' = [m_thread EXCEPT ![addr[h]] = 0]
     ELSE UNCHANGED << detached, m_thread >>
  /\ life' = [life EXCEPT ![h] = "destroyed"]
  /\ m_cb' = [m_cb EXCEPT ![addr[h]] = 0]
  /\ m_name' = [m_name EXCEPT ![addr[h]] = ""]
  /\ m_semaphore' = [m_semaphore EXCEPT ![addr[h]] = 0]
  /\ ret' = "none"
  /\ UNCHANGED << addr, m_id, pc, t_thread, t_thread_name, os_name, cb, arg,
                  mainH, joined, invoked >>

(* ---------------------------- specification ---------------------------- *)
Next ==
  \/ \E h \in Handles, n \in CtorNames, a \in Addrs : CtorSpawn(h, n, a)
  \/ \E h \in Handles, n \in CtorNames, a \in Addrs : CtorSpawnFail(h, n, a)
  \/ \E h \in Handles : Ctor64(h)
  \/ \E t \in Handles : Run95(t)
  \/ \E t \in Handles : Run96(t)
  \/ \E t \in Handles : Run97(t)
  \/ \E t \in Handles : Run99(t)
  \/ \E t \in Handles : Run103(t)
  \/ \E t \in Handles : Run106(t)
  \/ \E t \in Handles : Run108(t)
  \/ \E t \in Handles : Run109(t)
  \/ \E t \in Threads, n \in RenameNames : SetName46(t, n)
  \/ \E t \in Threads : SetName48(t)
  \/ \E t \in Threads : SetName50(t)
  \/ \E h \in Handles : Join79(h)
  \/ \E h \in Handles : Join79Detached(h)
  \/ \E h \in Handles : Join81Ok(h)
  \/ \E h \in Handles : Join81Fail(h)
  \/ \E h \in Handles : Join84(h)
  \/ \E h \in Handles : Destroy(h)

Spec == Init /\ [][Next]_vars

\* The steps of Thread::run up to and including the signal of line 106.
RunToSignal(t) ==
  \/ Run95(t) \/ Run96(t) \/ Run97(t)
  \/ Run99(t) \/ Run103(t) \/ Run106(t)

\* The same program under a scheduler that keeps running a spawned thread
\* through its start-up and the owner once its wait can return.  The work
\* (line 108 onwards) is given no fairness: it may stall or never end.
FairSpec ==
  /\ Spec
  /\ \A t \in Handles : WF_vars(RunToSignal(t))
  /\ \A h \in Handles : WF_vars(Ctor64(h))

TypeOK ==
  /\ life \in [Handles -> {"unborn", "constructing", "live", "failed", "destroyed"}]
  /\ addr \in [Handles -> Addrs \cup {Null}]
  /\ m_thread \in [Addrs -> Handles \cup {NoThread}]
  /\ m_id \in [Addrs -> {UnsetId} \cup { GetThreadId(t) : t \in Handles }]
  /\ m_name \in [Addrs -> Names]
  /\ m_cb \in [Addrs -> Handles \cup {0}]
  /\ m_semaphore \in [Addrs -> 0..1]
  /\ t_thread \in [Threads -> Addrs \cup {Null}]
  /\ t_thread_name \in [Threads -> Names]
  /\ cb \in [Handles -> Handles \cup {0}]
  /\ mainH \in Handles \cup {0}
  /\ ret \in {"none", "ok", "pthread_create error", "pthread_join error"}

(* ---------------------------- properties ------------------------------- *)
\* The constructor of h has returned successfully and h is not yet destroyed.
Constructed(h) == life[h] = "live"

\* Program locations of Thread::run before line 97 has completed.
BeforeId == {"unborn", "run95", "run96", "run97"}

\* Program locations of a thread that has entered its work.
InWork == {"work", "SetName48", "SetName50"}

\* C1: whenever the constructor has returned successfully, the spawned thread
\* has already stored its own id in the handle's id field, pointed its
\* thread-local back-reference at the handle and assigned its thread-local
\* name (lines 95-97 are behind it); none of the three is still unset.
ConstructReturnsInitialised ==
  \A h \in Handles :
     Constructed(h) =>
        /\ pc[h] \notin BeforeId
        /\ m_id[addr[h]] = GetThreadId(h)
        /\ m_id[addr[h]] # UnsetId
        /\ GetThis(h) = addr[h]
        /\ GetName(h) # "UNKNOWN"

\* C1 witness: a constructor has returned while the spawned thread stands
\* just behind the signal, its work not yet entered.
ConstructReturnedBeforeWork ==
  \E h \in Handles : Constructed(h) /\ pc[h] = "run108" /\ ret = "ok"

\* C2: the work given to a handle is never invoked more than once and never
\* by a thread other than the handle's spawned thread; a spawned thread that
\* has passed line 108 has invoked it exactly once and never found it empty.
WorkInvokedOnceBySpawned ==
  \A h \in Handles :
     /\ Len(invoked[h]) <= 1
     /\ \A i \in 1..Len(invoked[h]) : invoked[h][i] = h
     /\ pc[h] # "aborted"
     /\ pc[h] \in InWork \cup {"done"} => invoked[h] = << h >>
     /\ pc[h] \notin InWork \cup {"done"} => invoked[h] = << >>

\* C2 witness: a handle was joined, joined again and destroyed after its
\* thread renamed itself and finished; the work ran once.
WorkRanOnceThenDestroyed ==
  \E h \in Handles :
     /\ life[h] = "destroyed" /\ pc[h] = "done" /\ joined[h] = 1
     /\ GetName(h) \in RenameNames
     /\ invoked[h] = << h >>

\* A step in which join() on h, having called pthread_join, returns success.
JoinReturnsOk(h) ==
  pc[Main] = "join81" /\ mainH = h /\ pc'[Main] = "idle" /\ ret' = "ok"

\* C3: a join() that found the thread attached returns success only when the
\* spawned thread has finished the work and terminated.
JoinSuccessAfterTermination ==
  [][\A h \in Handles : JoinReturnsOk(h) => pc[h] = "done" /\ invoked[h] = << h >>]_vars

\* C3 witness: a join that went through pthread_join has returned success.
JoinedOk ==
  \E h \in Handles :
     Constructed(h) /\ joined[h] = 1 /\ ret = "ok" /\ pc[Main] = "idle"
                    /\ m_thread[addr[h]] = 0

\* C4, state part: once a join() on h has succeeded the handle holds no
\* thread, the platform join was performed once, and a further join() can
\* only take the path that returns at once, never the one to pthread_join.
JoinedStaysDetached ==
  \A h \in Handles :
     Constructed(h) /\ joined[h] >= 1 =>
        /\ m_thread[addr[h]] = 0
        /\ joined[h] = 1
        /\ pc[Main] = "idle" => ENABLED Join79Detached(h) /\ ~ ENABLED Join79(h)

\* C4, step part: a call of the owner that starts and returns success in one
\* step without creating or destroying a handle is a join() on a handle with
\* nothing attached; it leaves every handle field and the platform alone.
NoOpJoinChangesNothing ==
  (pc[Main] = "idle" /\ pc'[Main] = "idle" /\ ret' = "ok" /\ life' = life) =>
     UNCHANGED << addr, m_thread, m_id, m_cb, m_semaphore, joined, detached >>

\* C4: join() is idempotent: after a successful join() the handle is not
\* attached, and every later join() on it returns success without a platform
\* join, without blocking and without changing the handle.
JoinIdempotent == [] JoinedStaysDetached /\ [][NoOpJoinChangesNothing]_vars

\* C4 witness: a second join() on an already joined handle has returned.
SecondJoinReturned ==
  \E h \in Handles :
     /\ Constructed(h) /\ joined[h] = 1 /\ m_thread[addr[h]] = 0
     /\ pc[Main] = "idle" /\ ret = "ok"
     /\ t_thread_name[Main] \in RenameNames
     /\ ENABLED Join79Detached(h)

\* A step in which join() on h throws after pthread_join reported an error.
JoinThrows(h) ==
  pc[Main] = "join84" /\ mainH = h /\ pc'[Main] = "idle"

\* C5: when pthread_join reports an error, join() throws to its caller and
\* m_thread still holds the thread it held before the call; nothing was
\* joined or detached, so a later join() calls pthread_join again and the
\* destructor still detaches.
JoinErrorKeepsAttached ==
  [][\A h \in Handles :
        JoinThrows(h) =>
           /\ ret' = "pthread_join error"
           /\ m_thread'[addr[h]] = PthreadOf(h)
           /\ m_thread[addr[h]] = PthreadOf(h)
           /\ joined'[h] = 0 /\ detached'[h] = 0
           /\ life'[h] = "live"]_vars

\* C5 witness: a join() has thrown and the handle still holds its thread, so
\* that both pthread_join and the detaching destructor remain possible.
JoinThrewStillAttached ==
  \E h \in Handles :
     /\ pc[Main] = "idle" /\ ret = "pthread_join error"
     /\ Constructed(h) /\ m_thread[addr[h]] = PthreadOf(h)
     /\ ENABLED Join79(h) /\ ENABLED Destroy(h)

\* C6, state part: a handle whose pthread_create failed never had a thread,
\* a trampoline step, an invocation of its work or an object, and the
\* constructor waits on the readiness signal only for a thread that exists.
FailedSpawnLeavesNothing ==
  /\ \A h \in Handles :
        life[h] = "failed" =>
           /\ pc[h] = "unborn"
           /\ invoked[h] = << >>
           /\ GetThis(h) = Null
           /\ addr[h] = Null
  /\ pc[Main] = "ctor64" =>
        /\ life[mainH] = "constructing"
        /\ pc[mainH] # "unborn"
        /\ m_thread[addr[mainH]] = PthreadOf(mainH)

\* C6, step part: the failing constructor throws in the step that calls
\* pthread_create; it never enters the wait.
FailedSpawnThrowsAtOnce ==
  \A h \in Handles :
     (life[h] # "failed" /\ life'[h] = "failed") =>
        /\ life[h] = "unborn"
        /\ pc[Main] = "idle" /\ pc'[Main] = "idle"
        /\ ret' = "pthread_create error"
        /\ UNCHANGED << objVars, platVars, invoked >>

\* C6: if pthread_create fails the constructor fails at once with an error:
\* no wait on the readiness signal, no trampoline, no invocation of the work
\* and no handle.
SpawnFailureFailsConstruct ==
  [] FailedSpawnLeavesNothing /\ [][FailedSpawnThrowsAtOnce]_vars

\* C6 witness: a construction has failed with the error while another
\* handle's thread is running.
SpawnFailed ==
  \E h, g \in Handles :
     /\ life[h] = "failed" /\ ret = "pthread_create error" /\ pc[Main] = "idle"
     /\ pc[g] \in InWork

\* A step in which the destructor of h runs.
Destroyed(h) == life[h] = "live" /\ life'[h] = "destroyed"

\* C7, step part: the destructor detaches exactly when a thread is attached,
\* detaches nothing after a successful join(), leaves the handle unattached
\* and does not touch any thread's execution.
DestroyDetachesIfAttached ==
  \A h \in Handles :
     Destroyed(h) =>
        /\ m_thread[addr[h]] # 0 =>
              /\ detached' = [detached EXCEPT ![h] = detached[h] + 1]
              /\ joined[h] = 0
        /\ m_thread[addr[h]] = 0 => detached' = detached /\ joined[h] = 1
        /\ joined[h] >= 1 => detached' = detached
        /\ m_thread'[addr[h]] = 0
        /\ joined' = joined
        /\ pc' = pc

\* C7, state part: between two calls of the owner the destructor of a live
\* handle can always run to completion, whatever the spawned thread is doing.
DestroyNeverBlocks ==
  \A h \in Handles :
     Constructed(h) /\ pc[Main] = "idle" => ENABLED Destroy(h)

\* C7: destroying an attached handle detaches its thread without blocking,
\* whether the work is running or finished; destroying after a successful
\* join() detaches nothing; afterwards the handle is not attached.
DestroyDetaches == [] DestroyNeverBlocks /\ [][DestroyDetachesIfAttached]_vars

\* C7 witness: a handle was destroyed and its thread detached while the work
\* was still running, and another was destroyed after a join.
DetachedWhileRunning ==
  \E h, g \in Handles :
     /\ life[h] = "destroyed" /\ detached[h] = 1 /\ pc[h] \in InWork
     /\ life[g] = "destroyed" /\ joined[g] = 1 /\ detached[g] = 0

\* C8: the platform thread of a constructed handle is released exactly once:
\* never joined twice, detached twice or both; once the handle is destroyed
\* it has been joined once or detached once; while the handle still holds
\* the thread it has been neither.
ReleasedExactlyOnce ==
  \A h \in Handles :
     /\ joined[h] + detached[h] <= 1
     /\ life[h] = "destroyed" => joined[h] + detached[h] = 1
     /\ life[h] \in {"unborn", "failed", "constructing"} => joined[h] + detached[h] = 0
     /\ Constructed(h) => (m_thread[addr[h]] # 0 <=> joined[h] + detached[h] = 0)
     /\ Constructed(h) => detached[h] = 0

\* C8 witness: after a join() that threw, one handle was joined and then
\* destroyed and another was destroyed without a join.
ReleasedBothWays ==
  \E h, g \in Handles :
     /\ life[h] = "destroyed" /\ joined[h] = 1 /\ detached[h] = 0
     /\ life[g] = "destroyed" /\ joined[g] = 0 /\ detached[g] = 1
     /\ pc[g] = "done"

\* C9: the owner's read of a handle's name field (the error message of
\* join(), line 84) never happens while the handle's spawned thread is in
\* the middle of the assignment to that field in SetName (line 48).
NameReadWriteExclusive ==
  \A h \in Handles :
     ~ (pc[Main] = "join84" /\ mainH = h /\ h \in Writers(addr[h]))

\* A step in which thread t completes the store of line 48.
StoresName(t) == pc[t] = "SetName48" /\ pc'[t] = "SetName50"

\* A step in which SetName called by thread t returns.
SetNameReturns(t) == pc[t] = "SetName50" /\ pc'[t] # "SetName50"

\* C10: SetName(n) on thread t leaves n in t's thread-local name and in no
\* other thread's; if t has an owning handle the store of line 48 puts n in
\* that handle's name field and changes no other handle's name field; and
\* the owner, once its join() has returned, finds in the handle the name the
\* thread last gave itself.
SetNameSetsOwnNamesOnly ==
  [][\A t \in Threads :
        /\ SetNameReturns(t) =>
              /\ t_thread_name'[t] = arg[t]
              /\ \A u \in Threads \ {t} : t_thread_name'[u] = t_thread_name[u]
        /\ StoresName(t) =>
              /\ t # Main
              /\ Occupied(addr[t]) /\ life[t] \in {"constructing", "live"}
              /\ m_name'[addr[t]] = arg[t]
              /\ \A a \in Addrs \ {addr[t]} : m_name'[a] = m_name[a]
        /\ (t # Main /\ JoinReturnsOk(t) /\ GetName(t) \in RenameNames) =>
              m_name'[addr[t]] = GetName(t)]_vars

\* C11, state part: the owner thread, which no Thread created, has no
\* back-reference, never executes the store of line 48, and its thread-local
\* name is the default or a name it gave itself.
OwnerHasNoHandle ==
  /\ GetThis(Main) = Null
  /\ pc[Main] # "SetName48"
  /\ GetName(Main) \in {"UNKNOWN"} \cup RenameNames

\* C11, step part: the owner's back-reference never changes, and its
\* thread-local name changes only in the step in which its own SetName
\* returns; no construction, join, destruction or step of a spawned thread
\* touches either.
OwnerIdentityOnlyBySetName ==
  /\ t_thread'[Main] = t_thread[Main]
  /\ t_thread_name'[Main] # t_thread_name[Main] =>
        /\ SetNameReturns(Main)
        /\ t_thread_name'[Main] = arg[Main]

\* C11: for the thread not created through Thread, GetThis() is null in
\* every state and GetName() is "UNKNOWN" until that thread calls SetName;
\* nothing else changes its back-reference or its thread-local name.
OwnerIdentityUntouched ==
  /\ GetName(Main) = "UNKNOWN"
  /\ [] OwnerHasNoHandle
  /\ [][OwnerIdentityOnlyBySetName]_vars

\* C11 witness: handles were constructed, one joined and destroyed, a
\* spawned thread renamed itself, and the owner's name is still the default.
OwnerStillUnknown ==
  \E h \in Handles :
     /\ life[h] = "destroyed" /\ joined[h] = 1
     /\ GetName(h) \in RenameNames /\ GetThis(h) # Null
     /\ GetName(Main) = "UNKNOWN" /\ GetThis(Main) = Null

\* C12, state part: a signal is never lost: while the constructor is at its
\* wait and the spawned thread is past line 106, the semaphore holds the
\* signal and the wait can return, whatever the work is doing; and before
\* the signal the count is zero.
SignalNotMissed ==
  pc[Main] = "ctor64" =>
     /\ pc[mainH] \in {"run108", "done"} \cup InWork =>
           m_semaphore[addr[mainH]] = 1 /\ ENABLED Ctor64(mainH)
     /\ pc[mainH] \notin {"run108", "done"} \cup InWork =>
           m_semaphore[addr[mainH]] = 0 /\ ~ ENABLED Ctor64(mainH)

\* C12: the handshake misses no wakeup, and with the spawned thread
\* scheduled fairly every constructor whose pthread_create succeeded
\* returns, without any step of the work being required.
ConstructEventuallyReturns ==
  /\ [] SignalNotMissed
  /\ \A h \in Handles : (life[h] = "constructing") ~> (life[h] = "live")

\* C12 witness: the signal was given before the constructor's wait took it,
\* and the work has already run to its end.
SignalledBeforeWaitReturns ==
  \E h \in Handles :
     /\ pc[Main] = "ctor64" /\ mainH = h /\ life[h] = "constructing"
     /\ m_semaphore[addr[h]] = 1 /\ pc[h] = "done"

\* The id recorded in every constructed handle is the kernel id of the thread
\* spawned for it, which is not the id of the thread that constructed it.
IdIsSpawnedThreadsId ==
  \A h \in Handles :
     Constructed(h) =>
        /\ m_id[addr[h]] = GetThreadId(h)
        /\ m_id[addr[h]] # GetThreadId(Main)

\* The id field of an existing handle changes only by line 97 of the thread
\* spawned for it, from the unset value; join, SetName and the destructor
\* (up to the release of the storage) leave it as it is.
IdWrittenOnlyByRun97 ==
  \A h \in Handles :
     (life[h] \in {"constructing", "live"} /\ m_id'[addr[h]] # m_id[addr[h]]) =>
        /\ pc[h] = "run97" /\ pc'[h] = "run99"
        /\ m_id[addr[h]] = UnsetId
        /\ m_id'[addr[h]] = GetThreadId(h)

\* C13: m_id equals the kernel id of the spawned thread and differs from the
\* creator's; it is written once, by the entry function, and join, the
\* destructor and SetName never modify it.
IdWrittenOnceByTrampoline ==
  [] IdIsSpawnedThreadsId /\ [][IdWrittenOnlyByRun97]_vars

\* C13 witness: a handle whose thread renamed itself and was joined, and
\* whose id is still the one the thread stored.
IdKeptAfterRenameAndJoin ==
  \E h \in Handles :
     /\ life[h] = "live" /\ joined[h] = 1 /\ m_thread[addr[h]] = NoThread
     /\ GetName(h) \in RenameNames
     /\ m_id[addr[h]] = GetThreadId(h)

\* Positions of a spawned thread after its signal of line 106.
AfterSignal == {"run108", "done", "aborted"} \cup InWork

\* Each effect of the entry function is made with the effects of the lines
\* before it in place and those of the lines after it still missing:
\* back-reference (95), thread-local name (96), id (97), OS name (99),
\* work taken (103), signal (106), work invoked (108).  (The work itself may
\* change the thread-local name again by SetName.)
EffectsInSourceOrder ==
  \A t \in Handles :
     life[t] = "constructing" =>
        LET a      == addr[t]
            ref    == t_thread[t] = a
            name   == t_thread_name[t] # "UNKNOWN"
            id     == m_id[a] # UnsetId
            osname == os_name[t] # ""
            taken  == cb[t] = t /\ m_cb[a] = 0
            signal == m_semaphore[a] > 0
            called == invoked[t] # << >>
        IN  /\ t_thread'[t] # t_thread[t] =>
               ~ref /\ ~name /\ ~id /\ ~osname /\ ~taken /\ ~signal /\ ~called
            /\ (t_thread_name'[t] # t_thread_name[t] /\ pc[t] \notin InWork) =>
               ref /\ ~name /\ ~id /\ ~osname /\ ~taken /\ ~signal /\ ~called
            /\ m_id'[a] # m_id[a] =>
               ref /\ name /\ ~id /\ ~osname /\ ~taken /\ ~signal /\ ~called
            /\ os_name'[t] # os_name[t] =>
               ref /\ name /\ id /\ ~osname /\ ~taken /\ ~signal /\ ~called
            /\ (cb'[t] # cb[t] \/ m_cb'[a] # m_cb[a]) =>
               ref /\ name /\ id /\ osname /\ ~taken /\ ~signal /\ ~called
            /\ m_semaphore'[a] > m_semaphore[a] =>
               ref /\ name /\ id /\ osname /\ taken /\ ~signal /\ ~called
            /\ invoked'[t] # invoked[t] =>
               ref /\ name /\ id /\ osname /\ taken /\ signal /\ ~called

\* A semaphore is signalled only by line 106 of the thread spawned for its
\* handle, which that thread passes once.
SignalOnlyAtLine106 ==
  /\ \A h \in Handles :
        (life[h] \in {"constructing", "live"}
           /\ m_semaphore'[addr[h]] > m_semaphore[addr[h]]) =>
        pc[h] = "run106" /\ pc'[h] = "run108" /\ life[h] = "constructing"
  /\ \A t \in Handles : pc'[t] = "run106" => pc[t] \in {"run103", "run106"}

\* Signals given to a handle so far: one once its thread is past line 106.
\* Each is either still held by the semaphore or was taken by the constructor.
SignalledOnce ==
  \A h \in Handles :
     life[h] \in {"constructing", "live"} =>
        /\ m_semaphore[addr[h]] + (IF life[h] = "live" THEN 1 ELSE 0)
             = (IF pc[h] \in AfterSignal THEN 1 ELSE 0)
        /\ invoked[h] # << >> => pc[h] \in AfterSignal

\* C14: the entry function performs its steps in the order back-reference,
\* thread-local name, id, OS name, taking the work, signal, invoking the
\* work; it signals exactly once per handle and the work never starts before
\* the signal.
TrampolineOrder ==
  /\ [] SignalledOnce
  /\ [][EffectsInSourceOrder]_vars
  /\ [][SignalOnlyAtLine106]_vars

\* C14 witness: the work is running with every earlier effect in place while
\* the signal is still waiting to be taken by the constructor.
WorkStartedAfterSignal ==
  \E t \in Handles :
     /\ life[t] = "constructing" /\ pc[t] = "work"
     /\ t_thread[t] = addr[t] /\ t_thread_name[t] \in CtorNames
     /\ m_id[addr[t]] = GetThreadId(t) /\ os_name[t] # ""
     /\ cb[t] = t /\ m_semaphore[addr[t]] = 1 /\ invoked[t] = << t >>

\* From the signal on, the work is held by the local of the spawned thread
\* and the handle's slot is empty; in particular in every constructed handle.
WorkSlotEmptyOnceSignalled ==
  \A h \in Handles :
     /\ (life[h] = "constructing" /\ m_semaphore[addr[h]] > 0) =>
           m_cb[addr[h]] = 0 /\ cb[h] = h
     /\ Constructed(h) => m_cb[addr[h]] = 0

\* The work slot of a handle is written only by the swap of lines 102-103,
\* which empties it, before the signal.
WorkSlotOnlyEmptied ==
  \A h \in Handles :
     (life[h] \in {"constructing", "live"} /\ m_cb'[addr[h]] # m_cb[addr[h]]) =>
        /\ pc[h] = "run103" /\ pc'[h] = "run106"
        /\ m_cb[addr[h]] = h /\ m_cb'[addr[h]] = 0 /\ cb'[h] = h
        /\ life[h] = "constructing" /\ m_semaphore[addr[h]] = 0

\* C15: the work is moved out of the handle before the signal, so once the
\* constructor has returned the handle's work slot is empty and stays empty.
WorkMovedOutBeforeSignal ==
  [] WorkSlotEmptyOnceSignalled /\ [][WorkSlotOnlyEmptied]_vars

\* C15 witness: a constructed handle with an empty slot whose thread is
\* running the work out of its local.
WorkRunsFromLocal ==
  \E h \in Handles :
     /\ Constructed(h) /\ m_cb[addr[h]] = 0
     /\ pc[h] = "work" /\ cb[h] = h /\ invoked[h] = << h >>

\* C16: while a spawned thread is running its work, its thread-local
\* back-reference refers to its own handle and that handle has not been
\* destroyed; in particular a store of SetName in progress goes to a handle
\* that exists.
BackRefNeverDangles ==
  \A t \in Handles :
     pc[t] \in InWork =>
        /\ life[t] \in {"constructing", "live"}
        /\ GetThis(t) = addr[t]
        /\ pc[t] = "SetName48" => Occupied(GetThis(t))

\* A step of the entry function itself after its signal: entering the work
\* (line 108) or returning once the work has returned (line 109).
RunStepAfterSignal(t) ==
  \/ pc[t] = "run108" /\ pc'[t] \in {"work", "aborted"}
  \/ pc[t] = "work" /\ pc'[t] = "done"

\* The steps of the entry function after the signal write no field of any
\* handle, and the work they start is the one held by the local.
NoHandleAccessAfterSignal ==
  \A t \in Handles :
     RunStepAfterSignal(t) =>
        /\ objVars' = objVars
        /\ life' = life /\ addr' = addr
        /\ pc'[t] = "work" => cb[t] = t /\ invoked'[t] = Append(invoked[t], t)

\* Every step of the entry function that does use the handle is taken while
\* the constructor has not returned, so the handle exists; once the handle
\* is constructed or destroyed the thread is past the signal, and its next
\* step never waits for anything in the handle.
HandleStepsBeforeReturn ==
  \A t \in Handles :
     /\ pc[t] \in {"run95", "run96", "run97", "run99", "run103", "run106"} =>
           life[t] = "constructing" /\ pc[Main] = "ctor64" /\ mainH = t
     /\ life[t] \in {"live", "destroyed"} => pc[t] \in AfterSignal
     /\ pc[t] = "run108" => ENABLED Run108(t)
     /\ pc[t] = "work" => ENABLED Run109(t)

\* C17: after its signal the entry function itself touches no field of the
\* handle, so a handle destroyed at any time after the constructor returned
\* is never accessed by the entry function's own steps.
TrampolineLeavesHandleAlone ==
  [] HandleStepsBeforeReturn /\ [][NoHandleAccessAfterSignal]_vars

\* C17 witness: a thread whose handle was destroyed without join and whose
\* storage now holds a later handle, and which has run its work to the end.
FinishedAfterHandleReplaced ==
  \E t \in Handles, h \in Handles :
     /\ h # t /\ life[t] = "destroyed" /\ detached[t] = 1
     /\ life[h] = "live" /\ addr[h] = addr[t]
     /\ pc[t] = "done" /\ invoked[t] = << t >>
     /\ pc[h] = "work" /\ m_id[addr[h]] = GetThreadId(h)

\* C18: once the entry function has set the names (and before the work can
\* rename the thread), the OS-level name is the first 15 characters of the
\* name given to the constructor, and the handle's stored name and the
\* thread-local name are that name in full.
NamesFromConstructorName ==
  \A t \in Handles :
     (life[t] = "constructing" /\ pc[t] \in {"run103", "run106", "run108"}) =>
        \E n \in CtorNames :
           /\ os_name[t] = Substr0(n, OsNameLimit)
           /\ Len(os_name[t]) <= OsNameLimit
           /\ m_name[addr[t]] = n
           /\ t_thread_name[t] = n

====
